---- MODULE Spec2Model ----
(***************************************************************************)
(* A model of the IWR6843 data-port decoder of src/src/data.py:            *)
(* BytesUtils, MathUtils, DetectedObject, PacketHandler and Reader.         *)
(*                                                                         *)
(* Bytes are integers 0..255 and a bytes object is a sequence of them.     *)
(* Python indexes from 0 and TLA+ sequences from 1: Slice does the shift.  *)
(* A Python call either returns a value or raises: every operator that    *)
(* models a function that can raise yields [exc, val], with exc = "none"  *)
(* for a normal return and the exception's name otherwise.                 *)
(***************************************************************************)
EXTENDS Integers, Sequences, FiniteSets, TLC

VARIABLES
    stream,        \* chunks the sensor has still to put on the serial line
    port,          \* bytes waiting at Reader.data_port (inWaiting)
    read_buffer,   \* read_buffer of the last Reader.read
    packet_info,   \* packet_info of the last PacketHandler.parser call
    status,        \* status of the last PacketHandler.parser call
    result,        \* what the last Reader.read returned or raised
    calls          \* history: <<data, outcome>> of every parser call so far

vars == <<stream, port, read_buffer, packet_info, status, result, calls>>

----------------------------------------------------------------------------
(* Return values and exceptions *)

Ret(v) == [exc |-> "none", val |-> v]

Raise(e) == [exc |-> e, val |-> 0]

NotRun == [exc |-> "not_run", val |-> 0]

\* data[a:b:1] for 0 <= a <= b: the bytes at 0-based a .. b-1, clipped to data
Slice(data, a, b) ==
    LET hi == IF b < Len(data) THEN b ELSE Len(data)
    IN  IF a >= hi THEN << >> ELSE SubSeq(data, a + 1, hi)

----------------------------------------------------------------------------
(* class ParserStatus *)

TC_PASS == "TC_PASS"

TC_FAIL == "TC_FAIL"

----------------------------------------------------------------------------
(* class BytesUtils *)

get_uint32(data) ==
    IF Len(data) < 4
    THEN Raise("IndexError")
    ELSE Ret(data[1] + data[2] * 256 + data[3] * 65536 + data[4] * 16777216)

get_uint16(data) ==
    IF Len(data) < 2
    THEN Raise("IndexError")
    ELSE Ret(data[1] + data[2] * 256)

\* the eight values line 72 compares data[0..7] with
MagicPattern == <<2, 1, 4, 3, 6, 5, 8, 7>>

\* The conjunction of line 72 is evaluated left to right and stops at the
\* first false comparison; data[k] past the end of data raises IndexError.
RECURSIVE MagicAnd(_, _)
MagicAnd(data, k) ==
    IF k > 8 THEN Ret(1)
    ELSE IF k > Len(data) THEN Raise("IndexError")
    ELSE IF data[k] # MagicPattern[k] THEN Ret(0)
    ELSE MagicAnd(data, k + 1)

check_magic_pattern(data) == MagicAnd(data, 1)

----------------------------------------------------------------------------
(* Floats.  unpack('<f', b) decodes four little-endian bytes as an        *)
(* IEEE-754 binary32: a float is the triple of its sign bit, its 8-bit     *)
(* biased exponent and its 23-bit fraction.  The results of sqrt, atan and *)
(* of float arithmetic are kept as terms over their arguments.             *)

F32(s, e, m) == [t |-> "f32", s |-> s, e |-> e, m |-> m]

\* the literal 0.0
Zero == F32(0, 0, 0)

\* binascii.hexlify: two hex digits (0..15) for every byte
RECURSIVE hexlify(_)
hexlify(b) ==
    IF b = << >> THEN << >>
    ELSE <<Head(b) \div 16, Head(b) % 16>> \o hexlify(Tail(b))

\* codecs.decode(h, 'hex'): one byte for every two hex digits
RECURSIVE decode_hex(_)
decode_hex(h) ==
    IF Len(h) < 2 THEN << >>
    ELSE <<h[1] * 16 + h[2]>> \o decode_hex(Tail(Tail(h)))

\* struct.unpack('<f', b)[0]: struct.error unless b holds exactly 4 bytes
unpack_f(b) ==
    IF Len(b) # 4
    THEN Raise("struct.error")
    ELSE Ret(F32(b[4] \div 128,
                 (b[4] % 128) * 2 + (b[3] \div 128),
                 (b[3] % 128) * 65536 + b[2] * 256 + b[1]))

IsNaN(f) == f.e = 255 /\ f.m # 0

\* f == 0.0 (both signed zeros compare equal to 0.0)
IsZero(f) == f.e = 0 /\ f.m = 0

\* f < 0.0
IsNegative(f) == f.s = 1 /\ ~IsZero(f) /\ ~IsNaN(f)

\* a float literal of whole degrees
Degrees(d) == [t |-> "deg", d |-> d]

----------------------------------------------------------------------------
(* class MathUtils *)

radians_to_degrees(angle) == [t |-> "times_180_over_pi", a |-> angle]

get_range(x, y, z) == [t |-> "sqrt_sum_sq", a |-> <<x, y, z>>]

get_azimuth(x, y) ==
    IF ~IsZero(y)
    THEN radians_to_degrees([t |-> "atan_div", n |-> x, d |-> y])
    ELSE IF IsNegative(x) THEN Degrees(-90) ELSE Degrees(90)

get_elev_angle(x, y, z) ==
    IF IsZero(x) /\ IsZero(y)
    THEN IF IsNegative(z) THEN Degrees(-90) ELSE Degrees(90)
    ELSE radians_to_degrees([t |-> "atan_div", n |-> z,
                             d |-> [t |-> "sqrt_sum_sq", a |-> <<x, y>>]])

----------------------------------------------------------------------------
(* class PacketInfo *)

PacketInfo(header_start_index, packet_length, number_detected_objects, number_tlv, frame_number, sub_frame_number, time_cpu_cycles) ==
    [header_start_index |-> header_start_index,
     packet_length |-> packet_length,
     number_detected_objects |-> number_detected_objects,
     number_tlv |-> number_tlv,
     frame_number |-> frame_number,
     sub_frame_number |-> sub_frame_number,
     time_cpu_cycles |-> time_cpu_cycles]

\* PacketInfo(): every field at its default
DefaultPacketInfo == PacketInfo(-1, -1, -1, -1, -1, -1, -1)

----------------------------------------------------------------------------
(* class DetectedObject *)

\* what the name `range` denotes in DetectedObject.__init__, which has no
\* parameter or local of that name: the builtin class
BuiltinRange == [t |-> "builtin_range"]

\* DetectedObject(): line 248 stores `range`, not the parameter computed_range
DetectedObject ==
    [x |-> Zero, y |-> Zero, z |-> Zero, v |-> Zero,
     computed_range |-> BuiltinRange,
     azimuth |-> Zero, elev_angle |-> Zero, snr |-> 0, noise |-> 0]

tlv_type_1(self, x, y, z, v, computed_range, azimuth, elev_angle) ==
    [self EXCEPT !.x = x, !.y = y, !.z = z, !.v = v,
                 !.computed_range = computed_range,
                 !.azimuth = azimuth, !.elev_angle = elev_angle]

tlv_type_7(self, snr, noise) ==
    [self EXCEPT !.snr = snr, !.noise = noise]

----------------------------------------------------------------------------
(* class PacketHandler *)
(* A local that the code computes once and reads many times is passed on  *)
(* as an operator's parameter: the operators below are the code's          *)
(* functions cut at those locals.                                          *)

\* the first element of rs that raised, or Ret(0) when none did
RECURSIVE FirstRaise(_)
FirstRaise(rs) ==
    IF rs = << >> THEN Ret(0)
    ELSE IF Head(rs).exc # "none" THEN Head(rs)
    ELSE FirstRaise(Tail(rs))

\* FirstStop without the break of line 349: the last match is kept
LastStop(data, stops) ==
    LET last == CHOOSE index \in stops : \A other \in stops : index >= other
        found == check_magic_pattern(Slice(data, last, last + 8))
    IN  IF found.exc # "none" THEN found ELSE Ret(last)

\* lines 346-349, given the indexes at which check_magic_pattern does not
\* return 0: the loop ends at the first of them, by the break or by the raise
FirstStop(data, stops) ==
    LET first == CHOOSE index \in stops : \A other \in stops : index <= other
        found == check_magic_pattern(Slice(data, first, first + 8))
    IN  IF found.exc # "none" THEN found ELSE Ret(first)

\* lines 343-349: header_start_index after the loop over index, -1 when the
\* loop runs to its end
ScanMagic(data) ==
    LET stops == { index \in 0 .. (Len(data) - 1) :
                     check_magic_pattern(Slice(data, index, index + 8)) # Ret(0) }
    IN  IF stops = {} THEN Ret(-1) ELSE FirstStop(data, stops)

\* line 370, given the results of the six get_uint32 calls
MakePacketInfo(header_start_index, packet_length, frame_number, time_cpu_cycles, number_detected_objects, number_tlv, sub_frame_number) ==
    LET raised == FirstRaise(<<packet_length, frame_number, time_cpu_cycles,
                               number_detected_objects, number_tlv,
                               sub_frame_number>>)
    IN  IF raised.exc # "none" THEN raised
        ELSE Ret(PacketInfo(header_start_index, packet_length.val,
                            number_detected_objects.val, number_tlv.val,
                            frame_number.val, sub_frame_number.val,
                            time_cpu_cycles.val))

\* lines 352-370: the header fields at header_start_index
FieldsAt(data, header_start_index) ==
    MakePacketInfo(header_start_index,
        get_uint32(Slice(data, header_start_index + 12, header_start_index + 16)),
        get_uint32(Slice(data, header_start_index + 20, header_start_index + 24)),
        get_uint32(Slice(data, header_start_index + 24, header_start_index + 28)),
        get_uint32(Slice(data, header_start_index + 28, header_start_index + 32)),
        get_uint32(Slice(data, header_start_index + 32, header_start_index + 36)),
        get_uint32(Slice(data, header_start_index + 36, header_start_index + 40)))

\* lines 351-371, given the outcome of the scan
HeaderAt(data, scan) ==
    IF scan.exc # "none" THEN scan
    ELSE IF scan.val # -1 THEN FieldsAt(data, scan.val)
    ELSE Ret(DefaultPacketInfo)

_parse_packet_info(data) == HeaderAt(data, ScanMagic(data))

\* lines 400-403, given next_header_start_index
CheckNextHeader(data, info, next_header_start_index) ==
    LET found == check_magic_pattern(
                     Slice(data, next_header_start_index,
                           next_header_start_index + 8))
    IN  IF (next_header_start_index + 8) < info.packet_length
        THEN IF found.exc # "none" THEN found
             ELSE IF found.val = 0 THEN Ret(TC_FAIL) ELSE Ret(TC_PASS)
        ELSE Ret(TC_PASS)

\* _get_status with line 396 comparing packet_length alone with len(data)
GetStatusNoOffset(data, info) ==
    IF info.header_start_index = -1 THEN Ret(TC_FAIL)
    ELSE IF info.number_detected_objects < 0 THEN Ret(TC_FAIL)
    ELSE IF info.sub_frame_number > 3 THEN Ret(TC_FAIL)
    ELSE IF info.packet_length > Len(data) THEN Ret(TC_FAIL)
    ELSE CheckNextHeader(data, info,
                         info.header_start_index + info.packet_length)

\* _get_status with line 394 comparing sub_frame_number >= 3
GetStatusSubFrameOff(data, info) ==
    IF info.header_start_index = -1 THEN Ret(TC_FAIL)
    ELSE IF info.number_detected_objects < 0 THEN Ret(TC_FAIL)
    ELSE IF info.sub_frame_number >= 3 THEN Ret(TC_FAIL)
    ELSE IF (info.header_start_index + info.packet_length) > Len(data)
    THEN Ret(TC_FAIL)
    ELSE CheckNextHeader(data, info,
                         info.header_start_index + info.packet_length)

_get_status(data, info) ==
    IF info.header_start_index = -1 THEN Ret(TC_FAIL)
    ELSE IF info.number_detected_objects < 0 THEN Ret(TC_FAIL)
    ELSE IF info.sub_frame_number > 3 THEN Ret(TC_FAIL)
    ELSE IF (info.header_start_index + info.packet_length) > Len(data)
    THEN Ret(TC_FAIL)
    ELSE CheckNextHeader(data, info,
                         info.header_start_index + info.packet_length)

\* lines 436-440, given the four unpacked floats
Type1Object(self, x, y, z, v) ==
    LET raised == FirstRaise(<<x, y, z, v>>)
    IN  IF raised.exc # "none" THEN raised
        ELSE Ret(tlv_type_1(self, x.val, y.val, z.val, v.val,
                            get_range(x.val, y.val, z.val),
                            get_azimuth(x.val, y.val),
                            get_elev_angle(x.val, y.val, z.val)))

\* lines 432-440: the 16 bytes at `at` decoded into the object self
Type1At(data, at, self) ==
    Type1Object(self,
        unpack_f(decode_hex(hexlify(Slice(data, at, at + 4)))),
        unpack_f(decode_hex(hexlify(Slice(data, at + 4, at + 8)))),
        unpack_f(decode_hex(hexlify(Slice(data, at + 8, at + 12)))),
        unpack_f(decode_hex(hexlify(Slice(data, at + 12, at + 16)))))

\* Type1Loop without line 441: offset stays at 8
Type1LoopNoAdvance(data, tlv_start, detected_objects) ==
    LET n == Len(detected_objects)
        done == [obj \in 0 .. (n - 1) |->
                    Type1At(data, tlv_start + 8, detected_objects[obj + 1])]
        raised == FirstRaise([k \in 1..n |-> done[k - 1]])
    IN  IF raised.exc # "none" THEN raised
        ELSE Ret([k \in 1..n |-> done[k - 1].val])

\* lines 431-441: the loop over obj (from 0) keeps offset = 8 + 16 * obj
Type1Loop(data, tlv_start, detected_objects) ==
    LET n == Len(detected_objects)
        done == [obj \in 0 .. (n - 1) |->
                    Type1At(data, tlv_start + (8 + 16 * obj),
                            detected_objects[obj + 1])]
        raised == FirstRaise([k \in 1..n |-> done[k - 1]])
    IN  IF raised.exc # "none" THEN raised
        ELSE Ret([k \in 1..n |-> done[k - 1].val])

\* lines 450-452, given the two parsed integers
Type7Object(self, snr, noise) ==
    LET raised == FirstRaise(<<snr, noise>>)
    IN  IF raised.exc # "none" THEN raised
        ELSE Ret(tlv_type_7(self, snr.val, noise.val))

\* lines 450-452: the 4 bytes at `at` decoded into the object self
Type7At(data, at, self) ==
    Type7Object(self,
        get_uint16(Slice(data, at + 0, at + 2)),
        get_uint16(Slice(data, at + 2, at + 4)))

\* lines 449-453: the loop over obj (from 0) keeps offset = 8 + 4 * obj
Type7Loop(data, tlv_start, detected_objects) ==
    LET n == Len(detected_objects)
        done == [obj \in 0 .. (n - 1) |->
                    Type7At(data, tlv_start + (8 + 4 * obj),
                            detected_objects[obj + 1])]
        raised == FirstRaise([k \in 1..n |-> done[k - 1]])
    IN  IF raised.exc # "none" THEN raised
        ELSE Ret([k \in 1..n |-> done[k - 1].val])

\* NewObjects handing out the objects of the list returned last, as a list
\* kept on the class would
SharedObjects(n) ==
    IF result.kind = "list" /\ Len(result.objs) = n
    THEN result.objs
    ELSE [k \in 1..n |-> DetectedObject]

\* lines 422-424: one DetectedObject() for every declared object
NewObjects(n) == [k \in 1..n |-> DetectedObject]

\* lines 448-455, given the second sub-header
SecondTlv(data, tlv_start, tlv_type, tlv_len, detected_objects) ==
    LET raised == FirstRaise(<<tlv_type, tlv_len>>)
    IN  IF raised.exc # "none" THEN raised
        ELSE IF tlv_type.val = 7
        THEN Type7Loop(data, tlv_start, detected_objects)
        ELSE Ret(detected_objects)

\* lines 443-445, given the objects after the first sub-block
SecondTlvAt(data, tlv_start, detected_objects) ==
    IF detected_objects.exc # "none" THEN detected_objects
    ELSE SecondTlv(data, tlv_start,
             get_uint32(Slice(data, tlv_start + 0, tlv_start + 4)),
             get_uint32(Slice(data, tlv_start + 4, tlv_start + 8)),
             detected_objects.val)

\* FirstTlv with line 443 stepping over the bytes the loop consumed when the
\* first sub-block was processed, not over tlv_len
FirstTlvByConsumed(data, info, tlv_start, tlv_type, tlv_len) ==
    LET raised == FirstRaise(<<tlv_type, tlv_len>>)
    IN  IF raised.exc # "none" THEN raised
        ELSE IF tlv_type.val = 1 /\ tlv_len.val < info.packet_length
        THEN SecondTlvAt(data,
                 tlv_start + 8 + 16 * info.number_detected_objects,
                 Type1Loop(data, tlv_start,
                           NewObjects(info.number_detected_objects)))
        ELSE SecondTlvAt(data, tlv_start + 8 + tlv_len.val,
                 Ret(NewObjects(info.number_detected_objects)))

\* lines 430-443, given the first sub-header
FirstTlv(data, info, tlv_start, tlv_type, tlv_len) ==
    LET raised == FirstRaise(<<tlv_type, tlv_len>>)
    IN  IF raised.exc # "none" THEN raised
        ELSE SecondTlvAt(data, tlv_start + 8 + tlv_len.val,
                 IF tlv_type.val = 1 /\ tlv_len.val < info.packet_length
                 THEN Type1Loop(data, tlv_start,
                                NewObjects(info.number_detected_objects))
                 ELSE Ret(NewObjects(info.number_detected_objects)))

\* lines 425-427, given tlv_start
FirstTlvAt(data, info, tlv_start) ==
    FirstTlv(data, info, tlv_start,
             get_uint32(Slice(data, tlv_start + 0, tlv_start + 4)),
             get_uint32(Slice(data, tlv_start + 4, tlv_start + 8)))

_parse_tlvs(data, info) ==
    FirstTlvAt(data, info, info.header_start_index + 40)

\* What a call returned or raised: None, a list of objects, or an exception
ReturnNone == [kind |-> "None", objs |-> << >>, exc |-> "none"]

ReturnList(objs) == [kind |-> "list", objs |-> objs, exc |-> "none"]

Raised(e) == [kind |-> "raise", objs |-> << >>, exc |-> e]

\* line 475, given what _parse_tlvs returned or raised
ReturnObjects(objs) ==
    IF objs.exc # "none" THEN Raised(objs.exc) ELSE ReturnList(objs.val)

\* lines 474-477 as the note of line 471 would have them: after a Fail at
\* the first magic word, the parser looks for a frame behind that word and
\* returns its objects
LaterFrame(rest, info) ==
    IF info.exc # "none" THEN ReturnNone
    ELSE IF _get_status(rest, info.val).exc # "none" THEN ReturnNone
    ELSE IF _get_status(rest, info.val).val = TC_PASS
    THEN ReturnObjects(_parse_tlvs(rest, info.val))
    ELSE ReturnNone

ParserReturnNextFrame(data, info, st) ==
    IF st.exc # "none" THEN Raised(st.exc)
    ELSE IF st.val = TC_PASS THEN ReturnObjects(_parse_tlvs(data, info))
    ELSE IF info.header_start_index = -1 THEN ReturnNone
    ELSE LaterFrame(Slice(data, info.header_start_index + 8, Len(data)),
             _parse_packet_info(
                 Slice(data, info.header_start_index + 8, Len(data))))

\* lines 474-477, given packet_info and status
ParserReturn(data, info, st) ==
    IF st.exc # "none" THEN Raised(st.exc)
    ELSE IF st.val = TC_PASS THEN ReturnObjects(_parse_tlvs(data, info))
    ELSE ReturnNone

\* lines 473-477, given packet_info; with the result, the two locals
ParserStatus(data, info, st) ==
    [packet_info |-> Ret(info), status |-> st,
     result |-> ParserReturn(data, info, st)]

\* lines 472-477, given what _parse_packet_info returned or raised
ParserInfo(data, info) ==
    IF info.exc # "none"
    THEN [packet_info |-> info, status |-> NotRun, result |-> Raised(info.exc)]
    ELSE ParserStatus(data, info.val, _get_status(data, info.val))

\* PacketHandler.parser: its result, with the locals packet_info and status
parser(data) == ParserInfo(data, _parse_packet_info(data))

----------------------------------------------------------------------------
(* The sensor's side of the wire: the buffers the data port can hold.      *)
(* Every multi-byte field is little-endian; the layout is the one the     *)
(* parser reads back.                                                      *)

\* most objects a frame of the model declares
MaxObjects == 2

\* most junk bytes in a buffer that holds no header
MaxJunk == 2

\* most chunks the sensor sends in a run of SpecPolls
MaxChunks == 3

U32(v) == <<v % 256, (v \div 256) % 256, (v \div 65536) % 256, v \div 16777216>>

U16(v) == <<v % 256, v \div 256>>

\* The 40-byte header: magic word, version, packet_length, platform,
\* frame_number, time_cpu_cycles, number_detected_objects, number_tlv,
\* sub_frame_number
Header(packet_length, n, sub_frame_number) ==
    MagicPattern \o <<4, 0, 5, 3>> \o U32(packet_length) \o <<67, 104, 10, 0>>
        \o U32(9) \o U32(77) \o U32(n) \o U32(2) \o U32(sub_frame_number)

\* 16-byte groups (x, y, z, v) of little-endian binary32
KinGroups ==
    << <<0, 0, 128, 63,   0, 0, 128, 63,   0, 0, 128, 63,   0, 0, 0, 0>>,
       <<0, 0, 160, 192,  0, 0, 0, 0,      0, 0, 0, 0,      205, 204, 140, 63>>,
       <<0, 0, 0, 0,      0, 0, 0, 128,    0, 0, 160, 192,  0, 0, 0, 64>> >>

\* 4-byte groups (snr, noise) of little-endian u16
QualGroups == << <<100, 0, 5, 0>>, <<44, 1, 2, 0>> >>

\* object k (from 0) of a frame built with `base` carries these groups
KinGroup(base, k) == KinGroups[((base + k) % Len(KinGroups)) + 1]

QualGroup(base, k) == QualGroups[((base + k) % Len(QualGroups)) + 1]

RECURSIVE KinPayload(_, _, _)
KinPayload(base, k, n) ==
    IF k >= n THEN << >> ELSE KinGroup(base, k) \o KinPayload(base, k + 1, n)

RECURSIVE QualPayload(_, _, _)
QualPayload(base, k, n) ==
    IF k >= n THEN << >> ELSE QualGroup(base, k) \o QualPayload(base, k + 1, n)

Zeros(k) == [i \in 1..k |-> 0]

\* bytes of a frame with n objects laid out as the sensor documents it
FrameLength(n) == 40 + 8 + 16 * n + 8 + 4 * n

\* A frame as the sensor lays it out, with the fields a faulty sender can get
\* wrong left free: header, first sub-header (t1, l1) with n 16-byte groups
\* (padded to l1 when l1 is larger), second sub-header (t2) with n 4-byte groups
Frame(pl, n, sub, t1, l1, t2, base) ==
    Header(pl, n, sub)
        \o U32(t1) \o U32(l1) \o KinPayload(base, 0, n)
        \o (IF l1 > 16 * n THEN Zeros(l1 - 16 * n) ELSE << >>)
        \o U32(t2) \o U32(4 * n) \o QualPayload(base, 0, n)

\* the frame with every field right
WellFormed(n, base) == Frame(FrameLength(n), n, 0, 1, 16 * n, 7, base)

\* bytes that can precede a header: nothing, or noise and a broken-off
\* magic word
Prefixes == { << >>, <<0, 2, 1>> }

\* bytes that can follow a frame: nothing, the next frame's magic word, eight
\* other bytes, a whole next frame
Trailers ==
    { << >>, MagicPattern, <<9, 9, 9, 9, 9, 9, 9, 9>>, WellFormed(1, 1) }

Bases == {0, 1}

\* packet_length fields: right, one too many, less than a header, far too many
PacketLengths(n) == { FrameLength(n), FrameLength(n) + 1, 16, 1000 }

\* frames with a header in full that declare n objects
FramesOf(n) ==
    { pre \o Frame(pl, n, sub, t1, l1, t2, base) \o trail :
        pre \in Prefixes, pl \in PacketLengths(n),
        sub \in {0, 4}, t1 \in {1, 2},
        l1 \in {16 * n, 16 * n + 8}, t2 \in {7, 6}, base \in Bases,
        trail \in Trailers }

Frames == UNION { FramesOf(n) : n \in 0..MaxObjects }

\* frames that differ in sub_frame_number alone
SubFrames ==
    { Frame(FrameLength(1), 1, sub, 1, 16, 7, 0) \o trail :
        sub \in 0..5, trail \in { << >>, <<9, 9, 9, 9, 9, 9, 9, 9>> } }

\* a read that ends inside a header
CutHeaders ==
    { pre \o Slice(Header(16, 1, 0), 0, cut) : pre \in Prefixes, cut \in 8..39 }

\* a read that ends inside the sub-blocks of a frame that declares n objects
CutBodiesOf(n) ==
    { Slice(Frame(pl, n, 0, 1, 16 * n, 7, 0), 0, cut) :
        pl \in {16, 40}, cut \in 40 .. (FrameLength(n) - 1) }

CutBodies == UNION { CutBodiesOf(n) : n \in 0..MaxObjects }

RECURSIVE SeqsUpTo(_, _)
SeqsUpTo(S, k) ==
    IF k = 0 THEN { << >> }
    ELSE LET shorter == SeqsUpTo(S, k - 1)
         IN  shorter \cup { Append(q, b) : q \in shorter, b \in S }

\* buffers with no magic word: junk, then nothing or a broken-off or damaged
\* magic word
NoHeader ==
    { junk \o tail :
        junk \in SeqsUpTo({0, 2, 7}, MaxJunk),
        tail \in { Slice(MagicPattern, 0, k) : k \in 0..7 }
                   \cup { <<2, 1, 4, 3, 6, 5, 8, 0>>, <<1, 4, 3, 6, 5, 8, 7, 2, 1>> } }
        \ { << >> }

\* a well-formed frame behind junk
Shifted == { junk \o WellFormed(1, 0) : junk \in SeqsUpTo({0, 2, 7}, MaxJunk) }

\* A frame of one object whose first sub-block declares fewer bytes (l1) than
\* its 16-byte group holds: the bytes of x and y read as a sub-header are
\* (7, 4), and those of z read as a 4-byte group are (100, 5)
Overlap(l1) ==
    Header(FrameLength(1), 1, 0)
        \o U32(1) \o U32(l1)
        \o <<7, 0, 0, 0,   4, 0, 0, 0,   100, 0, 5, 0,   0, 0, 128, 63>>
        \o U32(7) \o U32(4) \o QualGroup(1, 0)

Overlaps == { pre \o Overlap(l1) : pre \in Prefixes, l1 \in {0, 4, 8, 16} }

Buffers ==
    Frames \cup SubFrames \cup CutHeaders \cup CutBodies \cup NoHeader \cup Shifted
        \cup Overlaps

\* what the sensor sends chunk by chunk in SpecPolls: a whole frame, a frame
\* whose sub-blocks carry other types, the two parts of a frame cut behind its
\* header (so that number_detected_objects stays what the frame declares
\* however the chunks meet in the port), a broken-off magic word, junk
PollChunks ==
    { WellFormed(1, 0), Frame(FrameLength(1), 1, 0, 2, 16, 6, 0),
      Slice(WellFormed(1, 0), 0, 50),
      Slice(WellFormed(1, 0), 50, FrameLength(1)),
      <<2>>, <<0, 7>> }

RECURSIVE ChunkSeqs(_)
ChunkSeqs(k) ==
    IF k = 0 THEN { << >> }
    ELSE LET shorter == ChunkSeqs(k - 1)
         IN  shorter \cup { Append(q, c) : q \in shorter, c \in PollChunks }

----------------------------------------------------------------------------
(* class Reader, and the serial line *)

\* the next chunk reaches the data port and waits there with what is unread
Arrive ==
    /\ stream # << >>
    /\ port' = port \o Head(stream)
    /\ stream' = Tail(stream)
    /\ UNCHANGED <<read_buffer, packet_info, status, result, calls>>

\* line 507, given what the parser did with data
Parsed(data, p) ==
    /\ packet_info' = p.packet_info
    /\ status' = p.status
    /\ result' = p.result
    /\ calls' = Append(calls, [data |-> data, outcome |-> p.result])

\* Reader.read: takes all that waits, and parses it when there is any;
\* with nothing read it falls off its end, which returns None
read ==
    /\ read_buffer' = port
    /\ port' = << >>
    /\ IF Len(port) > 0
       THEN Parsed(port, parser(port))
       ELSE /\ packet_info' = NotRun
            /\ status' = NotRun
            /\ result' = ReturnNone
            /\ calls' = calls
    /\ UNCHANGED stream

Idle ==
    /\ port = << >>
    /\ read_buffer = << >>
    /\ packet_info = NotRun
    /\ status = NotRun
    /\ result = [kind |-> "idle", objs |-> << >>, exc |-> "none"]
    /\ calls = << >>

\* one buffer, delivered whole
Init == stream \in { <<b>> : b \in Buffers } /\ Idle

\* up to MaxChunks chunks, read whenever the caller polls
InitPolls == stream \in (ChunkSeqs(MaxChunks) \ { << >> }) /\ Idle

\* a well-formed frame that the line hands over in two parts, cut at every
\* point strictly inside it, with nothing or a whole frame sent after it
SplitFramesOf(n) ==
    { <<Slice(WellFormed(n, base), 0, cut),
        Slice(WellFormed(n, base), cut, FrameLength(n))>> \o later :
        base \in Bases, cut \in 1 .. (FrameLength(n) - 1),
        later \in { << >>, <<WellFormed(1, 0)>> } }

SplitFrames == UNION { SplitFramesOf(n) : n \in 0..MaxObjects }

\* the two parts of one frame, and what may follow, read whenever the caller
\* polls
InitSplit == stream \in SplitFrames /\ Idle

Next == Arrive \/ read

Spec == Init /\ [][Next]_vars

SpecPolls == InitPolls /\ [][Next]_vars

SpecSplit == InitSplit /\ [][Next]_vars

----------------------------------------------------------------------------
(* The properties.  They speak of a buffer in the words of the wire        *)
(* format, apart from the parser: where the magic word lies in it and what *)
(* little-endian fields it holds.                                          *)

\* buf holds the magic word at 0-based offset i
HasSyncAt(buf, i) ==
    /\ i + 8 <= Len(buf)
    /\ \A k \in 1..8 : buf[i + k] = MagicPattern[k]

SyncOffsets(buf) == { i \in 0 .. (Len(buf) - 8) : HasSyncAt(buf, i) }

FirstSync(buf) ==
    CHOOSE i \in SyncOffsets(buf) : \A j \in SyncOffsets(buf) : i <= j

\* the little-endian u32 at 0-based offset off of buf
FieldAt(buf, off) ==
    buf[off + 1] + 256 * (buf[off + 2] + 256 * (buf[off + 3] + 256 * buf[off + 4]))

\* buf holds a header in full at its first magic word
HasHeader(buf) ==
    /\ SyncOffsets(buf) # {}
    /\ Len(buf) - FirstSync(buf) >= 40

\* the binary32 values the groups of KinGroups encode:
\* (1.0, 1.0, 1.0, 0.0), (-5.0, 0.0, 0.0, 1.1), (0.0, -0.0, -5.0, 2.0)
KinValues ==
    << <<F32(0, 127, 0), F32(0, 127, 0), F32(0, 127, 0), F32(0, 0, 0)>>,
       <<F32(1, 129, 2097152), F32(0, 0, 0), F32(0, 0, 0), F32(0, 127, 838861)>>,
       <<F32(0, 0, 0), F32(1, 0, 0), F32(1, 129, 2097152), F32(0, 128, 0)>> >>

\* the (snr, noise) the groups of QualGroups encode
QualValues == << <<100, 5>>, <<300, 2>> >>

KinValue(base, k) == KinValues[((base + k) % Len(KinValues)) + 1]

QualValue(base, k) == QualValues[((base + k) % Len(QualValues)) + 1]

\* object k (from 1) of objs carries the values of the k-th groups of a frame
\* built with base
CarriesGroups(objs, k, base) ==
    /\ <<objs[k].x, objs[k].y, objs[k].z, objs[k].v>> = KinValue(base, k - 1)
    /\ <<objs[k].snr, objs[k].noise>> = QualValue(base, k - 1)

\* C1: a buffer that is exactly one well-formed frame of n objects is parsed
\* into a list of exactly n objects, object k with the (x, y, z, v) of the
\* k-th 16-byte group and the (snr, noise) of the k-th 4-byte group.
C1_WellFormedDecoded ==
    \A n \in 0..MaxObjects, base \in Bases :
        read_buffer = WellFormed(n, base) =>
            /\ result.kind = "list"
            /\ Len(result.objs) = n
            /\ \A k \in 1..n : CarriesGroups(result.objs, k, base)

C1_Witness ==
    /\ read_buffer = WellFormed(MaxObjects, 1)
    /\ result.kind = "list"
    /\ Len(result.objs) = MaxObjects
    /\ result.objs[1].snr = 300
    /\ result.objs[MaxObjects].x # result.objs[1].x

\* C2: a non-empty buffer that holds the magic word at no offset makes the
\* parser return None.
C2_NoSyncReturnsNone ==
    (read_buffer # << >> /\ SyncOffsets(read_buffer) = {}) =>
        result = ReturnNone

\* C3: when the located header is classified Pass, the parser returns a list
\* with as many objects as the header declares.
C3_PassReturnsList ==
    (status.exc = "none" /\ status.val = TC_PASS) =>
        /\ result.kind = "list"
        /\ Len(result.objs) = packet_info.val.number_detected_objects

\* C4: when the header at the first magic word is there in full and declares
\* a packet_length larger than the bytes from its start to the end of the
\* buffer, _get_status returns TC_FAIL and the parser returns None.
C4_TruncationFails ==
    (/\ HasHeader(read_buffer)
     /\ FieldAt(read_buffer, FirstSync(read_buffer) + 12)
            > Len(read_buffer) - FirstSync(read_buffer)) =>
        /\ status = Ret(TC_FAIL)
        /\ result = ReturnNone

C4_Witness ==
    /\ HasHeader(read_buffer)
    /\ FirstSync(read_buffer) > 0
    /\ FieldAt(read_buffer, FirstSync(read_buffer) + 12)
           > Len(read_buffer) - FirstSync(read_buffer)
    /\ FieldAt(read_buffer, FirstSync(read_buffer) + 12) <= Len(read_buffer)
    /\ FieldAt(read_buffer, FirstSync(read_buffer) + 36) <= 3
    /\ status = Ret(TC_FAIL)
    /\ result = ReturnNone

\* C5: a located header with sub_frame_number >= 4 is classified TC_FAIL, and
\* with sub_frame_number in 0..3 its status is the one that every other
\* sub_frame_number in 0..3 gets with the same buffer and the same other fields.
C5_SubFrameRule ==
    HasHeader(read_buffer) =>
        /\ status.exc = "none"
        /\ FieldAt(read_buffer, FirstSync(read_buffer) + 36) >= 4
               => status.val = TC_FAIL
        /\ FieldAt(read_buffer, FirstSync(read_buffer) + 36) \in 0..3
               => \A sub \in 0..3 :
                      _get_status(read_buffer,
                          [packet_info.val EXCEPT !.sub_frame_number = sub])
                      = status

C5_Witness ==
    /\ HasHeader(read_buffer)
    /\ FieldAt(read_buffer, FirstSync(read_buffer) + 36) = 3
    /\ packet_info.val.sub_frame_number = 3
    /\ status = Ret(TC_PASS)

\* C6: when the buffer holds the magic word, the scan of _parse_packet_info
\* ends without an error with header_start_index at the first offset that
\* holds it.
C6_FirstSyncWins ==
    SyncOffsets(read_buffer) # {} =>
        /\ ScanMagic(read_buffer) = Ret(FirstSync(read_buffer))
        /\ packet_info.exc = "none" =>
               packet_info.val.header_start_index = FirstSync(read_buffer)

C6_Witness ==
    /\ Cardinality(SyncOffsets(read_buffer)) >= 2
    /\ FirstSync(read_buffer) > 0
    /\ packet_info.exc = "none"
    /\ packet_info.val.header_start_index = FirstSync(read_buffer)

\* C7: when fewer than 40 bytes lie from the first magic word to the end of
\* the buffer, the parser returns None.
C7_ShortHeaderFails ==
    (/\ SyncOffsets(read_buffer) # {}
     /\ Len(read_buffer) - FirstSync(read_buffer) < 40) =>
        result = ReturnNone

C9_BoundaryMismatchFails ==
    (/\ HasHeader(read_buffer)
     /\ FieldAt(read_buffer, FirstSync(read_buffer) + 36) <= 3
     /\ FirstSync(read_buffer) + FieldAt(read_buffer, FirstSync(read_buffer) + 12) + 8
            <= Len(read_buffer)
     /\ ~HasSyncAt(read_buffer,
            FirstSync(read_buffer) + FieldAt(read_buffer, FirstSync(read_buffer) + 12))) =>
        /\ status = Ret(TC_FAIL)
        /\ result = ReturnNone

\* an object whose seven kinematic fields are all 0.0
KinematicsZero(o) ==
    /\ o.x = Zero /\ o.y = Zero /\ o.z = Zero /\ o.v = Zero
    /\ o.computed_range = Zero /\ o.azimuth = Zero /\ o.elev_angle = Zero

\* C10: in the list of a Pass frame, every object has its seven kinematic
\* fields at zero when the first sub-block is not processed (type other than 1,
\* or length not below packet_length), and snr and noise at zero when the type
\* of the second sub-block is not 7.
C10_SlotsZeroed ==
    (HasHeader(read_buffer) /\ result.kind = "list") =>
        LET start == FirstSync(read_buffer)
            tlv_type == FieldAt(read_buffer, start + 40)
            tlv_len == FieldAt(read_buffer, start + 44)
        IN  /\ (tlv_type # 1 \/ tlv_len >= FieldAt(read_buffer, start + 12))
                   => \A k \in DOMAIN result.objs : KinematicsZero(result.objs[k])
            /\ FieldAt(read_buffer, start + 48 + tlv_len) # 7
                   => \A k \in DOMAIN result.objs :
                          result.objs[k].snr = 0 /\ result.objs[k].noise = 0

\* the little-endian u16 at 0-based offset off of buf
ShortAt(buf, off) == buf[off + 1] + 256 * buf[off + 2]

\* the seven fields that tlv_type_1 sets
Kinematics(o) ==
    <<o.x, o.y, o.z, o.v, o.computed_range, o.azimuth, o.elev_angle>>

\* the objects as the first pass of _parse_tlvs leaves them, for a buffer
\* that it goes through without an error
AfterFirstPass(buf, info) ==
    IF /\ FieldAt(buf, info.header_start_index + 40) = 1
       /\ FieldAt(buf, info.header_start_index + 44) < info.packet_length
    THEN Type1Loop(buf, info.header_start_index + 40,
                   NewObjects(info.number_detected_objects)).val
    ELSE NewObjects(info.number_detected_objects)

\* C11: on a Pass frame that is parsed into a list, the second sub-header is
\* the 8 bytes at start + 40 + 8 + L, L the length field of the first
\* sub-block, be the first sub-block processed or not and be L equal to
\* 16 * number_detected_objects or not: when the type there is 7, object k
\* (from 0) has the snr and noise of the 4 bytes at that offset + 8 + 4 * k,
\* when it is not, snr and noise are as constructed; and every object has the
\* kinematic fields the first pass gave it.
C11_SecondBlockByLength ==
    (HasHeader(read_buffer) /\ status = Ret(TC_PASS) /\ result.kind = "list") =>
        LET start == FirstSync(read_buffer)
            second == start + 40 + 8 + FieldAt(read_buffer, start + 44)
            first_pass == AfterFirstPass(read_buffer, packet_info.val)
        IN  /\ Len(result.objs) = Len(first_pass)
            /\ \A k \in DOMAIN result.objs :
                   /\ Kinematics(result.objs[k]) = Kinematics(first_pass[k])
                   /\ IF FieldAt(read_buffer, second) = 7
                      THEN /\ result.objs[k].snr
                                 = ShortAt(read_buffer, second + 8 + 4 * (k - 1))
                           /\ result.objs[k].noise
                                 = ShortAt(read_buffer, second + 10 + 4 * (k - 1))
                      ELSE /\ result.objs[k].snr = 0
                           /\ result.objs[k].noise = 0

\* the first sub-block is processed and declares no bytes: the quality pass
\* reads its header and its group out of the bytes of x, y and z
C11_Witness ==
    /\ HasHeader(read_buffer)
    /\ status = Ret(TC_PASS)
    /\ result.kind = "list"
    /\ Len(result.objs) = 1
    /\ FieldAt(read_buffer, FirstSync(read_buffer) + 40) = 1
    /\ FieldAt(read_buffer, FirstSync(read_buffer) + 44) = 0
    /\ FieldAt(read_buffer, FirstSync(read_buffer) + 48) = 7
    /\ result.objs[1].snr = 100
    /\ result.objs[1].noise = 5
    /\ result.objs[1].x = F32(0, 0, 7)
    /\ result.objs[1].z = F32(0, 0, 327780)

\* a and b are the two non-empty parts of one well-formed frame
IsSplit(a, b) ==
    /\ a # << >>
    /\ b # << >>
    /\ \E n \in 0..MaxObjects, base \in Bases : a \o b = WellFormed(n, base)

\* C12: when two parser calls in a row get the prefix and then the suffix of
\* a well-formed frame cut strictly inside it, both return None (no list and
\* no exception), and a later call on a whole well-formed frame returns that
\* frame's objects as it would have without the two.
C12_SplitDiscarded ==
    \A i \in 1 .. (Len(calls) - 1) :
        IsSplit(calls[i].data, calls[i + 1].data) =>
            /\ calls[i].outcome = ReturnNone
            /\ calls[i + 1].outcome = ReturnNone
            /\ \A j \in (i + 2) .. Len(calls) :
                   calls[j].data = WellFormed(1, 0) =>
                       /\ calls[j].outcome.kind = "list"
                       /\ Len(calls[j].outcome.objs) = 1
                       /\ CarriesGroups(calls[j].outcome.objs, 1, 0)

\* the header at the first magic word of buf breaks one of the rules of
\* _get_status that can break: sub_frame_number, or packet_length against the
\* bytes from that word to the end of buf
FirstFrameFails(buf) ==
    \/ FieldAt(buf, FirstSync(buf) + 36) > 3
    \/ FirstSync(buf) + FieldAt(buf, FirstSync(buf) + 12) > Len(buf)

\* a whole well-formed frame begins in buf behind its first magic word
LaterFrameIn(buf) ==
    \E j \in SyncOffsets(buf) :
        /\ j > FirstSync(buf)
        /\ \E n \in 0..MaxObjects, base \in Bases :
               Slice(buf, j, Len(buf)) = WellFormed(n, base)

\* C13: the header at the first magic word decides the outcome of parser.
\* packet_info holds the fields of that header; when it is classified Fail the
\* result is None, and when it is classified Pass the result is what
\* _parse_tlvs makes of that header (as many objects as it declares, read at
\* the offsets counted from it), whatever frame begins later in the buffer.
C13_FirstFrameDecides ==
    HasHeader(read_buffer) =>
        /\ packet_info = FieldsAt(read_buffer, FirstSync(read_buffer))
        /\ FirstFrameFails(read_buffer) =>
               /\ status = Ret(TC_FAIL)
               /\ result = ReturnNone
        /\ ~FirstFrameFails(read_buffer) =>
               /\ status = Ret(TC_PASS)
               /\ result = ReturnObjects(_parse_tlvs(read_buffer,
                              FieldsAt(read_buffer, FirstSync(read_buffer)).val))
               /\ result.kind = "list" =>
                      Len(result.objs)
                          = FieldAt(read_buffer, FirstSync(read_buffer) + 28)

\* a frame of two objects passes with a whole frame of one object behind it:
\* the list is the first frame's, with none of the values of the later one
C13_Witness ==
    /\ HasHeader(read_buffer)
    /\ LaterFrameIn(read_buffer)
    /\ ~FirstFrameFails(read_buffer)
    /\ status = Ret(TC_PASS)
    /\ result.kind = "list"
    /\ Len(result.objs) = 2
    /\ CarriesGroups(result.objs, 1, 0)
    /\ CarriesGroups(result.objs, 2, 0)
    /\ ~CarriesGroups(result.objs, 1, 1)

====
